---- MODULE Spec2Model ----
(***************************************************************************)
(* A model of the API discovery agent: the AI discovery loop, the request  *)
(* to the completion service and the JSON salvage routine                  *)
(* (src/src/ai_api_discovery.py), the heuristic URL probing and endpoint   *)
(* extraction (src/api_discovery.py), the two spreadsheet exporters        *)
(* (src/excel_exporter.py, src/src/excel_exporter.py) and the two command  *)
(* lines (src/main.py, src/src/main.py).                                   *)
(* Each component has its own specification over the shared variables; the *)
(* variables of the other components stay at their idle values.            *)
(***************************************************************************)
EXTENDS Integers, Sequences, FiniteSets, TLC

VARIABLES
    \* ---- AIAPIDiscovery.search_company_api ----
    pc,             \* position inside search_company_api
    requests,       \* number of requests sent to the completion service
    result,         \* the dict `result` (a function on its keys)
    all_endpoints,  \* the list `all_endpoints`
    iteration,      \* the loop counter `iteration`
    rounds,         \* ghost: one record per request sent, in order
    reported,       \* ghost: what the round-1 reply said about has_api
    last_repeats,   \* ghost: the accumulated pairs the latest reply listed again
    last_listed,    \* ghost: the endpoints list of the latest reply
    first_reply,    \* ghost: the round-1 reply as _fetch_endpoints returned it
    \* ---- ExcelExporter.create_spreadsheet (both exporters) ----
    x_pc,           \* "idle", or which exporter has written: "heuristic", "ai"
    sheet,          \* the active sheet of the workbook
    files,          \* the files saved to disk
    export_input,   \* ghost: the endpoints list the exporter was given
    x_after,        \* the caller's endpoints list once the exporter has returned
    \* ---- AIAPIDiscovery._salvage_json ----
    s_pc,           \* "idle", "reply", "cut", "done"
    body,           \* ghost: the complete JSON text the service meant to send
    s_content,      \* the text handed to _salvage_json (`content`)
    salvaged,       \* what _salvage_json returned
    \* ---- APIDiscoveryAgent.search_for_api_documentation ----
    p_pc,           \* "idle", "probing", "returned"
    p_company,      \* the argument company_name
    probed,         \* ghost: one record per candidate URL requested, in order
    p_result,       \* the value returned (NoUrl for None)
    p_raised,       \* an exception left search_for_api_documentation
    \* ---- APIDiscoveryAgent.extract_endpoints ----
    e_pc,           \* "idle", "fetch", "code", "tables", "headings", "urls", "returned"
    e_endpoints,    \* the list `endpoints`
    extracted,      \* the value returned
    e_status,       \* ghost: the status the page was answered with (0: no answer)
    e_failed,       \* ghost: where an exception was raised ("" when none was)
    e_lost,         \* ghost: the endpoints collected when the exception was raised
    e_raised,       \* an exception left extract_endpoints
    \* ---- main() of src/main.py and of src/src/main.py ----
    m_cli,          \* which main runs: "ai", "heuristic" ("" when none does)
    m_pc,           \* "idle", "ai_start", "ai_search", "h_start", "h_extract", "exited"
    m_env,          \* OPENROUTER_API_KEY is set in the environment
    m_doc_url,      \* the doc_url the heuristic main got from discover_api
    m_caught,       \* ghost: the exception main's handler caught ("" when none)
    m_exit,         \* the exit code of the process (-1 while it runs)
    \* ---- AIAPIDiscovery._make_api_request ----
    q_pc,           \* "idle", "post", "decode", "returned", "raised"
    q_http,         \* ghost: what the transport does with the request
    q_content,      \* the local `content`: whether it is bound, and its text
    q_result,       \* the value returned
    q_exc,          \* the exception that left _make_api_request ("" when none)
    q_tried,        \* ghost: what _salvage_json gave ("untried" when not called)
    q_requests      \* number of calls of requests.post

loopVars == <<pc, requests, result, all_endpoints, iteration, rounds, reported,
              last_repeats, last_listed, first_reply>>

exportVars == <<x_pc, sheet, files, export_input, x_after>>

salvageVars == <<s_pc, body, s_content, salvaged>>

probeVars == <<p_pc, p_company, probed, p_result, p_raised>>

extractVars == <<e_pc, e_endpoints, extracted, e_status, e_failed, e_lost, e_raised>>

mainVars == <<m_cli, m_pc, m_env, m_doc_url, m_caught, m_exit>>

requestVars == <<q_pc, q_http, q_content, q_result, q_exc, q_tried, q_requests>>

vars == <<loopVars, exportVars, salvageVars, probeVars, extractVars, mainVars,
          requestVars>>

\* what the steps of one component leave alone
notLoopVars == <<exportVars, salvageVars, probeVars, extractVars, mainVars, requestVars>>
notExportVars == <<loopVars, salvageVars, probeVars, extractVars, mainVars, requestVars>>
notSalvageVars == <<loopVars, exportVars, probeVars, extractVars, mainVars, requestVars>>
notProbeVars == <<loopVars, exportVars, salvageVars, extractVars, mainVars, requestVars>>
notExtractVars == <<loopVars, exportVars, salvageVars, probeVars, mainVars, requestVars>>
notRequestVars == <<loopVars, exportVars, salvageVars, probeVars, extractVars, mainVars>>

(***************************************************************************)
(* Bounds                                                                  *)
(***************************************************************************)
\* longest endpoints list one reply of the completion service carries
MaxReplyLen == 2

(***************************************************************************)
(* Python helpers                                                          *)
(***************************************************************************)
\* dict.get(key, default)
Get(d, k, default) == IF k \in DOMAIN d THEN d[k] ELSE default

\* `not d.get(k)` for a string-valued key: missing or empty
FalsyStr(d, k) == ~(k \in DOMAIN d) \/ d[k] = ""

\* a presence test in place of the truthiness test
TruthyFlag_presence(d, k) == k \in DOMAIN d

\* `d.get('has_api')` truthiness: the key is present and true
TruthyFlag(d, k) == k \in DOMAIN d /\ d[k] = TRUE

\* d[k] = v (dict item assignment: adds the key when it is missing)
SetItem(d, k, v) == [x \in DOMAIN d \cup {k} |-> IF x = k THEN v ELSE d[x]]

\* the dict with no keys
EmptyDict == [x \in {} |-> x]

\* all sequences over S of length 0..n
SeqsUpTo(S, n) == UNION {[1..k -> S] : k \in 0..n}

Min(a, b) == IF a < b THEN a ELSE b

(***************************************************************************)
(* The completion service's replies, as _make_api_request returns them     *)
(***************************************************************************)
CompanyName == "acme"

\* the (method, path) pairs the service knows, in the order it brings them up;
\* "get" differs from "GET" in letter case only
Catalogue ==
    << <<"GET", "/users">>, <<"POST", "/users">>, <<"get", "/users">>,
       <<"GET", "/items">>, <<"POST", "/items">>, <<"GET", "/orders">> >>

\* the pairs a reply of round k draws from: the first pair (by round 2 a repeat
\* candidate), the pair the previous round could already have listed, a fresh one
Window(k) == {1, k, k + 1} \cap (1..Len(Catalogue))

\* the description the service gives in round k
RoundDesc(k) == <<"r1", "r2", "r3", "r4", "r5", "r6", "r7">>[k]

\* complete endpoint records a reply of round k may list
FullEndpoints(k) ==
    {[method |-> Catalogue[j][1], path |-> Catalogue[j][2],
      description |-> RoundDesc(k)] : j \in Window(k)}

\* a partial record (no 'method' key), as a truncated reply can yield
PartialEndpoints(k) == {[path |-> "/users", description |-> RoundDesc(k)]}

\* the endpoints lists a reply of round k may carry: any list of complete
\* records up to the bound (one record at most from the fourth round on, to
\* keep the state space small), or a list with the partial record in it
EndpointLists(k) ==
    SeqsUpTo(FullEndpoints(k), IF k <= 3 THEN MaxReplyLen ELSE 1)
    \cup {<<q>> : q \in PartialEndpoints(k)}
    \cup {<<e, q>> : e \in FullEndpoints(k), q \in PartialEndpoints(k)}

\* _empty_result(company_name, error)
EmptyResult(company_name, error) ==
    [company_name |-> company_name, has_api |-> FALSE, api_type |-> "",
     base_url |-> "", endpoints |-> <<>>, error |-> error]

TransportError == "API request error: timeout"
ParseError == "JSON parse error: Expecting value"

\* header fields of a round-1 reply: all given
FullHeader ==
    [company_name |-> "Acme", api_type |-> "GraphQL",
     base_url |-> "https://api.acme.com"]

\* header fields of a round-1 reply: one empty and the others missing
SparseHeader == [api_type |-> ""]

\* header fields of a round-1 reply that says more than it was asked for
RichHeader ==
    [company_name |-> "Acme", api_type |-> "REST", base_url |-> "https://api.acme.com",
     description |-> "Acme API", main_documentation_url |-> "https://docs.acme.com"]

FlagParts == { [has_api |-> TRUE], [has_api |-> FALSE], EmptyDict }

EndpointsParts(k) == {[endpoints |-> l] : l \in EndpointLists(k)} \cup {EmptyDict}

\* the sparse replies (as salvage produces them) and the rich ones carry at
\* most one endpoint
SparseEndpointsParts ==
    {e \in EndpointsParts(1) : Len(Get(e, "endpoints", <<>>)) <= 1}

\* the value None where a list is expected ("endpoints": null in a reply): a
\* value that no list of endpoint records equals
NoneList == <<[none |-> TRUE]>>

\* the value '' where a list is expected ("endpoints": "" in a reply)
EmptyText == <<[str |-> TRUE]>>

\* the falsy values of the endpoints field that are no list
NonLists == {NoneList, EmptyText}

\* what _fetch_endpoints can return: a decoded object, or the empty/error result
FirstReplies ==
    {FullHeader @@ f @@ e : f \in FlagParts, e \in EndpointsParts(1)}
    \cup {FullHeader @@ f @@ [endpoints |-> l] : f \in FlagParts, l \in NonLists}
    \cup {h @@ f @@ e : h \in {SparseHeader, RichHeader}, f \in FlagParts,
                         e \in SparseEndpointsParts}
    \cup {EmptyResult(CompanyName, TransportError), EmptyResult(CompanyName, ParseError)}

\* what _fetch_additional_endpoints can return in round k
AdditionalReplies(k) ==
    EndpointsParts(k)
    \cup {EmptyResult(CompanyName, TransportError), EmptyResult(CompanyName, ParseError)}

(***************************************************************************)
(* Ghost measurements of a reply, taken on the (method, path) pairs        *)
(* themselves and not on the keys the code computes                        *)
(***************************************************************************)
PairOf(ep) == <<ep.method, ep.path>>

\* the pairs of the complete records of a list
PairsOf(eps) == {PairOf(eps[i]) : i \in {j \in 1..Len(eps) : "method" \in DOMAIN eps[j]}}

\* how many entries of a list carry the pair pr
CountPair(eps, pr) ==
    Cardinality({i \in 1..Len(eps) : "method" \in DOMAIN eps[i] /\ PairOf(eps[i]) = pr})

\* how many entries of a reply carry a pair that is not accumulated yet
FreshCount(new_endpoints, eps) ==
    Cardinality({i \in 1..Len(new_endpoints) :
        /\ "method" \in DOMAIN new_endpoints[i]
        /\ PairOf(new_endpoints[i]) \notin PairsOf(eps)})

\* the pairs of a reply that are accumulated already
RepeatedPairs(new_endpoints, eps) == PairsOf(new_endpoints) \cap PairsOf(eps)

RoundRecord(reply, eps, kind) ==
    [kind |-> kind, new |-> FreshCount(Get(reply, "endpoints", <<>>), eps)]

ReportedFlag(reply) ==
    IF "has_api" \notin DOMAIN reply THEN "missing"
    ELSE IF reply.has_api THEN "true" ELSE "false"

\* how a reply came about (ghost)
ReplyKind(reply) ==
    IF "error" \in DOMAIN reply
    THEN (IF reply.error = TransportError THEN "transport" ELSE "parse")
    ELSE "decoded"

(***************************************************************************)
(* AIAPIDiscovery.search_company_api                                       *)
(***************************************************************************)
\* a cap that lets one more round through
max_iterations_off_by_one == 5 + 1

max_iterations == 5

\* existing_endpoints[:30] in _fetch_additional_endpoints
SummaryLimit == 30

\* ep['method'] and ep['path'] both succeed
HasKeyFields(ep) == "method" \in DOMAIN ep /\ "path" \in DOMAIN ep

\* a key that takes 'get' for 'GET'
EndpointKey_folded(ep) ==
    (IF ep.method = "get" THEN "GET" ELSE ep.method) \o ":" \o ep.path

\* f"{ep['method']}:{ep['path']}"
EndpointKey(ep) == ep.method \o ":" \o ep.path

\* the set comprehension existing_paths
ExistingPaths(eps) == {EndpointKey(eps[i]) : i \in 1..Len(eps)}

\* no filtering against the accumulated keys
UniqueNew_unfiltered(new_endpoints, eps) == new_endpoints

\* the list comprehension unique_new
UniqueNew(new_endpoints, eps) ==
    LET existing_paths == ExistingPaths(eps)
        IsNew(ep) == EndpointKey(ep) \notin existing_paths
    IN SelectSeq(new_endpoints, IsNew)

\* building existing_summary raises: TypeError for None[:30], KeyError for a
\* record without 'method' or 'path'; ''[:30] is '' and raises nothing
SummaryRaises(eps) ==
    \/ eps = NoneList
    \/ /\ eps # EmptyText
       /\ \E i \in 1..Min(Len(eps), SummaryLimit) : ~HasKeyFields(eps[i])

\* the deduplication step raises: KeyError for a record without 'method' or
\* 'path', AttributeError for ''.extend(unique_new) (with '' accumulated,
\* existing_paths is empty and unique_new is the whole non-empty reply)
DedupRaises(new_endpoints, eps) ==
    \/ \E i \in 1..Len(eps) : ~HasKeyFields(eps[i])
    \/ \E i \in 1..Len(new_endpoints) : ~HasKeyFields(new_endpoints[i])

\* lines 55-61: fill the missing or empty header fields
FillDefaults(r, company_name) ==
    LET r1 == IF FalsyStr(r, "base_url") THEN SetItem(r, "base_url", "N/A") ELSE r
        r2 == IF FalsyStr(r1, "api_type") THEN SetItem(r1, "api_type", "REST") ELSE r1
    IN IF FalsyStr(r2, "company_name")
       THEN SetItem(r2, "company_name", company_name) ELSE r2

\* no call of search_company_api is under way
LoopIdle ==
    /\ pc = "idle"
    /\ requests = 0
    /\ result = EmptyDict
    /\ all_endpoints = <<>>
    /\ iteration = 0
    /\ rounds = <<>>
    /\ reported = "nothing"
    /\ last_repeats = {}
    /\ last_listed = <<>>
    /\ first_reply = EmptyDict

LoopInit ==
    /\ pc = "start"
    /\ requests = 0
    /\ result = EmptyDict
    /\ all_endpoints = <<>>
    /\ iteration = 0
    /\ rounds = <<>>
    /\ reported = "nothing"
    /\ last_repeats = {}
    /\ last_listed = <<>>
    /\ first_reply = EmptyDict

\* lines 49-66: the first pass, the short circuit and the defaults
FirstPass ==
    /\ pc = "start"
    /\ UNCHANGED notLoopVars
    /\ \E reply \in FirstReplies :
         /\ requests' = requests + 1
         /\ rounds' = <<RoundRecord(reply, <<>>, ReplyKind(reply))>>
         /\ reported' = ReportedFlag(reply)
         /\ last_repeats' = {}
         /\ last_listed' = Get(reply, "endpoints", <<>>)
         /\ first_reply' = reply
         /\ IF ~TruthyFlag(reply, "has_api")
            THEN /\ result' = reply
                 /\ pc' = "done"
                 /\ UNCHANGED <<all_endpoints, iteration>>
            ELSE /\ result' = FillDefaults(reply, CompanyName)
                 /\ all_endpoints' = Get(reply, "endpoints", <<>>)
                 /\ iteration' = 1
                 /\ pc' = "loop"

\* line 70 up to the request: the prompt cannot be built
PromptFails ==
    /\ pc = "loop"
    /\ iteration < max_iterations
    /\ SummaryRaises(all_endpoints)
    /\ pc' = "raised"
    /\ UNCHANGED <<requests, result, all_endpoints, iteration, rounds, reported,
                   last_repeats, last_listed, first_reply>>
    /\ UNCHANGED notLoopVars

\* lines 68-92: one additional pass; when it ends the loop, the return
AdditionalPass ==
    /\ pc = "loop"
    /\ iteration < max_iterations
    /\ ~SummaryRaises(all_endpoints)
    /\ \E reply \in AdditionalReplies(iteration + 1) :
         LET new_endpoints == Get(reply, "endpoints", <<>>)
             unique_new == UniqueNew(new_endpoints, all_endpoints)
             merged == all_endpoints \o unique_new
             Log(kind) == Append(rounds, RoundRecord(reply, all_endpoints, kind))
         IN /\ requests' = requests + 1
            /\ UNCHANGED <<reported, first_reply>>
            /\ last_repeats' = RepeatedPairs(new_endpoints, all_endpoints)
            /\ last_listed' = new_endpoints
            /\ IF new_endpoints = <<>>
               THEN /\ pc' = "done"
                    /\ result' = SetItem(result, "endpoints", all_endpoints)
                    /\ rounds' = Log(ReplyKind(reply))
                    /\ UNCHANGED <<all_endpoints, iteration>>
               ELSE IF DedupRaises(new_endpoints, all_endpoints)
               THEN /\ pc' = "raised"
                    /\ rounds' = Append(rounds, [kind |-> "keyerror", new |-> 0])
                    /\ UNCHANGED <<result, all_endpoints, iteration>>
               ELSE IF unique_new = <<>>
               THEN /\ pc' = "done"
                    /\ result' = SetItem(result, "endpoints", all_endpoints)
                    /\ rounds' = Log("decoded")
                    /\ UNCHANGED <<all_endpoints, iteration>>
               ELSE /\ all_endpoints' = merged
                    /\ iteration' = iteration + 1
                    /\ rounds' = Log("decoded")
                    /\ IF iteration + 1 < max_iterations
                       THEN pc' = "loop" /\ UNCHANGED result
                       ELSE /\ pc' = "done"
                            /\ result' = SetItem(result, "endpoints", merged)
    /\ UNCHANGED notLoopVars

\* a request of any round whose answer is no JSON and no 4xx or 5xx either:
\* response.json() raises, the JSONDecodeError handler of _make_api_request
\* reads `content` before it is bound (see Post), and the UnboundLocalError
\* passes through _fetch_endpoints or _fetch_additional_endpoints
RequestRaises ==
    /\ \/ pc = "start"
       \/ pc = "loop" /\ iteration < max_iterations /\ ~SummaryRaises(all_endpoints)
    /\ requests' = requests + 1
    /\ rounds' = Append(rounds, [kind |-> "not_json", new |-> 0])
    /\ last_repeats' = {}
    /\ last_listed' = <<>>
    /\ pc' = "raised"
    /\ UNCHANGED <<result, all_endpoints, iteration, reported, first_reply>>
    /\ UNCHANGED notLoopVars

LoopNext == FirstPass \/ PromptFails \/ AdditionalPass \/ RequestRaises

(***************************************************************************)
(* The spreadsheet exporters                                               *)
(***************************************************************************)
\* longest endpoints list handed to an exporter
MaxExportLen == 3

\* every string the sheets order, in Python's str order (by code point)
StringOrder == <<"", "/items", "/orders", "/users", "GET", "N/A", "POST", "get">>

StrRank(str) == CHOOSE i \in 1..Len(StringOrder) : StringOrder[i] = str

\* a < b for Python strings
StrLess(a, b) == StrRank(a) < StrRank(b)

\* endpoint records as the callers hand them over; the last one is partial
ExportEndpoints ==
    { [method |-> "GET", path |-> "/users", full_endpoint |-> "GET /users",
       description |-> "List users"],
      [method |-> "POST", path |-> "/users", full_endpoint |-> "POST /users",
       description |-> "Create user"],
      [method |-> "GET", path |-> "/items", full_endpoint |-> "GET /items",
       description |-> "List items"],
      [method |-> "GET", path |-> "/users", full_endpoint |-> "GET /users",
       description |-> "Users again"],
      [path |-> "/items"] }

ExportLists == SeqsUpTo(ExportEndpoints, MaxExportLen)

ExportCompanies == {"Acme", "Acme Inc"}

\* company_name.replace(' ', '_')
ReplaceSpaces(name) == IF name = "Acme Inc" THEN "Acme_Inc" ELSE name

\* datetime.now().strftime(...)
NowStamp == "20260101_120000"
NowText == "2026-01-01 12:00:00"

\* the filename argument: None, or a name
FilenameArgs == {"", "out.xlsx"}

\* sheet.cell(row, column, value) / sheet['A1'] = value
SetCell(cells, row, col, v) ==
    [c \in DOMAIN cells \cup {<<row, col>>} |->
        IF c = <<row, col>> THEN v ELSE cells[c]]

NoCells == [c \in {} |-> ""]

\* row by row: sheet.cell(row=..., column=j, value=values[j])
RECURSIVE SetRow(_, _, _, _)
SetRow(cells, row, values, j) ==
    IF j > Len(values) THEN cells
    ELSE SetRow(SetCell(cells, row, j, values[j]), row, values, j + 1)

\* ---- src/excel_exporter.py ----
header_row == 6

headers == <<"Method", "Path", "Full Endpoint", "Description", "Notes">>

\* the count of distinct records in place of the count of entries
TotalEndpoints_distinct(endpoints) ==
    Cardinality({endpoints[i] : i \in 1..Len(endpoints)})

\* sheet['B3'] = len(endpoints)
TotalEndpoints(endpoints) == Len(endpoints)

\* the values one endpoint puts in columns 1..5
EndpointRow(endpoint) ==
    << Get(endpoint, "method", ""), Get(endpoint, "path", ""),
       Get(endpoint, "full_endpoint", ""), Get(endpoint, "description", ""), "" >>

\* a loop that skips the records it has written already
RECURSIVE WriteRows_skip_seen(_, _, _)
WriteRows_skip_seen(cells, endpoints, current_row) ==
    IF endpoints = <<>> THEN [cells |-> cells, current_row |-> current_row]
    ELSE IF \E r \in header_row + 1 .. current_row - 1 :
               /\ cells[<<r, 1>>] = Get(Head(endpoints), "method", "")
               /\ cells[<<r, 2>>] = Get(Head(endpoints), "path", "")
         THEN WriteRows_skip_seen(cells, Tail(endpoints), current_row)
         ELSE WriteRows_skip_seen(
                  SetRow(cells, current_row, EndpointRow(Head(endpoints)), 1),
                  Tail(endpoints), current_row + 1)

\* for endpoint in endpoints: ... current_row += 1
RECURSIVE WriteRows(_, _, _)
WriteRows(cells, endpoints, current_row) ==
    IF endpoints = <<>> THEN [cells |-> cells, current_row |-> current_row]
    ELSE WriteRows(SetRow(cells, current_row, EndpointRow(Head(endpoints)), 1),
                   Tail(endpoints), current_row + 1)

\* the sheet create_spreadsheet(company_name, doc_url, endpoints) builds
HeuristicSheet(company_name, doc_url, endpoints) ==
    LET c1 == SetCell(NoCells, 1, 1, company_name \o " API Documentation")
        c2 == SetCell(SetCell(c1, 2, 1, "Documentation URL:"), 2, 2, doc_url)
        c3 == SetCell(SetCell(c2, 3, 1, "Total Endpoints:"), 3, 2,
                      TotalEndpoints(endpoints))
        c4 == SetCell(SetCell(c3, 4, 1, "Generated:"), 4, 2, NowText)
        c5 == SetRow(c4, header_row, headers, 1)
        w == WriteRows(c5, endpoints, header_row + 1)
    IN [title |-> "API Endpoints",
        cells |-> w.cells,
        merged |-> "A1:E1",
        freeze_panes |-> <<7, 1>>,
        auto_filter |-> <<header_row, w.current_row - 1>>]

\* the default filename of the heuristic exporter
HeuristicFilename(company_name, filename) ==
    IF filename = ""
    THEN ReplaceSpaces(company_name) \o "_API_Documentation_" \o NowStamp \o ".xlsx"
    ELSE filename

DocUrl == "https://api.acme.com"

ExportInit ==
    /\ x_pc = "idle"
    /\ sheet = [title |-> "Sheet", cells |-> NoCells]
    /\ files = {}
    /\ export_input = <<>>
    /\ x_after = <<>>

\* src/excel_exporter.py: ExcelExporter.create_spreadsheet
CreateSpreadsheet ==
    /\ x_pc = "idle"
    /\ \E company_name \in ExportCompanies, endpoints \in ExportLists,
          filename \in FilenameArgs :
         /\ sheet' = HeuristicSheet(company_name, DocUrl, endpoints)
         /\ files' = files \cup {HeuristicFilename(company_name, filename)}
         /\ export_input' = endpoints
         /\ x_after' = endpoints
         /\ x_pc' = "heuristic"
    /\ UNCHANGED notExportVars

\* ---- src/src/excel_exporter.py ----
first_meta_row == 3

\* the sort key (x.get('path', ''), x.get('method', ''))
SortKey(ep) == <<Get(ep, "path", ""), Get(ep, "method", "")>>

\* tuple comparison k1 < k2
KeyLess(k1, k2) ==
    \/ StrLess(k1[1], k2[1])
    \/ k1[1] = k2[1] /\ StrLess(k1[2], k2[2])

\* e goes behind every entry whose key is not greater (the sort is stable)
RECURSIVE InsertSorted(_, _)
InsertSorted(s, e) ==
    IF s = <<>> THEN <<e>>
    ELSE IF KeyLess(SortKey(e), SortKey(Head(s))) THEN <<e>> \o s
         ELSE <<Head(s)>> \o InsertSorted(Tail(s), e)

\* the list left in the order it came in
SortedEndpoints_input_order(endpoints) == endpoints

\* sorted(endpoints, key=...)
RECURSIVE SortedEndpoints(_)
SortedEndpoints(endpoints) ==
    IF endpoints = <<>> THEN <<>>
    ELSE InsertSorted(SortedEndpoints(SubSeq(endpoints, 1, Len(endpoints) - 1)),
                      endpoints[Len(endpoints)])

\* sorted() builds a new list: the list it is given keeps its order
AfterSorted(endpoints) == endpoints

\* the values one endpoint puts in columns A..C
EndpointRowAI(endpoint) ==
    << Get(endpoint, "method", ""), Get(endpoint, "path", ""),
       Get(endpoint, "description", "") >>

\* for endpoint in sorted_endpoints: row += 1 ...
RECURSIVE WriteRowsAI(_, _, _)
WriteRowsAI(cells, endpoints, row) ==
    IF endpoints = <<>> THEN cells
    ELSE WriteRowsAI(SetRow(cells, row + 1, EndpointRowAI(Head(endpoints)), 1),
                     Tail(endpoints), row + 1)

\* the sheet create_spreadsheet(api_info) builds
AISheet(api_info) ==
    LET company_name == Get(api_info, "company_name", "Unknown")
        r3 == first_meta_row
        c1 == SetCell(NoCells, 1, 1, company_name \o " API Information")
        c2 == SetCell(SetCell(c1, r3, 1, "Has API:"), r3, 2,
                      IF TruthyFlag(api_info, "has_api") THEN "Yes" ELSE "No")
        c3 == SetCell(SetCell(c2, r3 + 1, 1, "API Type:"), r3 + 1, 2,
                      Get(api_info, "api_type", "N/A"))
        c4 == SetCell(SetCell(c3, r3 + 2, 1, "Base URL:"), r3 + 2, 2,
                      Get(api_info, "base_url", "N/A"))
        c5 == SetCell(SetCell(c4, r3 + 3, 1, "Generated:"), r3 + 3, 2, NowText)
        c6 == SetCell(c5, r3 + 5, 1, "API Endpoints")
        c7 == SetRow(c6, r3 + 6, <<"Method", "Path", "Description">>, 1)
        endpoints == Get(api_info, "endpoints", <<>>)
    IN [title |-> "API Information",
        cells |-> WriteRowsAI(c7, SortedEndpoints(endpoints), r3 + 6),
        merged |-> "A1:B1"]

\* the path the AI exporter saves to: relative names go to the data directory
AIFilename(api_info, filename) ==
    "data/" \o (IF filename = ""
                THEN ReplaceSpaces(Get(api_info, "company_name", "Unknown"))
                     \o "_API_Endpoints.xlsx"
                ELSE filename)

\* the results handed to the AI exporter
ExportResults ==
    {[company_name |-> cn, has_api |-> TRUE, api_type |-> "REST",
      base_url |-> "N/A", endpoints |-> l] :
        cn \in ExportCompanies, l \in ExportLists}
    \cup {EmptyDict}

\* src/src/excel_exporter.py: ExcelExporter.create_spreadsheet
CreateSpreadsheetAI ==
    /\ x_pc = "idle"
    /\ \E api_info \in ExportResults, filename \in FilenameArgs :
         /\ sheet' = AISheet(api_info)
         /\ files' = files \cup {AIFilename(api_info, filename)}
         /\ export_input' = Get(api_info, "endpoints", <<>>)
         /\ x_after' = AfterSorted(Get(api_info, "endpoints", <<>>))
         /\ x_pc' = "ai"
    /\ UNCHANGED notExportVars

ExportNext == CreateSpreadsheet \/ CreateSpreadsheetAI

(***************************************************************************)
(* Text and JSON: a text is a sequence of one-character strings            *)
(***************************************************************************)
\* what \s of the re module and str.strip() take for white space
RegexSpace == {" ", "\t", "\n", "\r", "\f"}

\* what the json module skips between tokens
JsonSpace == {" ", "\t", "\n", "\r"}

\* control characters, which json.loads rejects inside a string
ControlChars == {"\t", "\n", "\r", "\f"}

Digits == {"0", "1", "2", "3", "4", "5", "6", "7", "8", "9"}

\* str.find(ch, p): the first index >= p holding ch, 0 when there is none
FindFrom(s, ch, p) ==
    IF \E i \in p..Len(s) : s[i] = ch
    THEN CHOOSE i \in p..Len(s) : s[i] = ch /\ \A j \in p..i - 1 : s[j] # ch
    ELSE 0

\* str.rfind(ch)
FindLast(s, ch) ==
    LET hits == {i \in 1..Len(s) : s[i] = ch}
    IN IF hits = {} THEN 0 ELSE CHOOSE i \in hits : \A j \in hits : j <= i

\* str.count(ch)
CountChar(s, ch) == Cardinality({i \in 1..Len(s) : s[i] = ch})

\* ch * n (the empty text when n <= 0)
Repeat(ch, n) == [i \in 1..n |-> ch]

\* str.strip()
Strip(s) ==
    LET keep == {i \in 1..Len(s) : s[i] \notin RegexSpace}
    IN IF keep = {} THEN <<>>
       ELSE SubSeq(s, CHOOSE i \in keep : \A j \in keep : i <= j,
                      CHOOSE i \in keep : \A j \in keep : j <= i)

\* the first index >= p that holds no character of the set (Len(s) + 1 when
\* the rest of the text is made of the set)
SkipOver(s, p, set) ==
    IF \E i \in p..Len(s) : s[i] \notin set
    THEN CHOOSE i \in p..Len(s) :
             s[i] \notin set /\ \A j \in p..i - 1 : s[j] \in set
    ELSE IF p > Len(s) THEN p ELSE Len(s) + 1

\* str.split('\n')
RECURSIVE SplitLines(_)
SplitLines(s) ==
    LET n == FindFrom(s, "\n", 1)
    IN IF n = 0 THEN <<s>>
       ELSE <<SubSeq(s, 1, n - 1)>> \o SplitLines(SubSeq(s, n + 1, Len(s)))

\* '\n'.join(lines)
RECURSIVE JoinLines(_)
JoinLines(ls) ==
    IF ls = <<>> THEN <<>>
    ELSE IF Len(ls) = 1 THEN ls[1]
    ELSE ls[1] \o <<"\n">> \o JoinLines(Tail(ls))

\* ---- JSON values: [t |-> kind, v |-> payload] ----
Str(chars) == [t |-> "str", v |-> chars]
Num(chars) == [t |-> "num", v |-> chars]
Lit(chars) == [t |-> "lit", v |-> chars]
Arr(items) == [t |-> "arr", v |-> items]
\* members: a sequence of <<key characters, value>> in insertion order
Obj(members) == [t |-> "obj", v |-> members]

NoneValue == [t |-> "none", v |-> <<>>]

Failed == [ok |-> FALSE]

\* dict[key] = value while decoding: a repeated key keeps its place, the last value wins
PutMember(members, key, val) ==
    IF \E i \in 1..Len(members) : members[i][1] = key
    THEN [i \in 1..Len(members) |->
            IF members[i][1] = key THEN <<key, val>> ELSE members[i]]
    ELSE Append(members, <<key, val>>)

\* a string token starting at the quote s[p]
ParseString(s, p) ==
    LET q == FindFrom(s, "\"", p + 1)
    IN IF q = 0 THEN Failed
       ELSE IF \E i \in p + 1 .. q - 1 : s[i] \in ControlChars THEN Failed
       ELSE [ok |-> TRUE, val |-> Str(SubSeq(s, p + 1, q - 1)), pos |-> q + 1]

\* an integer token starting at s[p]
ParseNumber(s, p) ==
    LET d == IF s[p] = "-" THEN p + 1 ELSE p
        e == IF d <= Len(s) /\ s[d] = "0" THEN d + 1 ELSE SkipOver(s, d, Digits)
    IN IF e = d THEN Failed
       ELSE [ok |-> TRUE, val |-> Num(SubSeq(s, p, e - 1)), pos |-> e]

JsonLiterals ==
    { <<"t", "r", "u", "e">>, <<"f", "a", "l", "s", "e">>, <<"n", "u", "l", "l">> }

\* true, false or null starting at s[p]
ParseLiteral(s, p) ==
    LET fits == {w \in JsonLiterals :
                    /\ p + Len(w) - 1 <= Len(s)
                    /\ SubSeq(s, p, p + Len(w) - 1) = w}
    IN IF fits = {} THEN Failed
       ELSE LET w == CHOOSE x \in fits : TRUE
            IN [ok |-> TRUE, val |-> Lit(w), pos |-> p + Len(w)]

RECURSIVE ParseValue(_, _)
RECURSIVE ParseMembers(_, _, _)
RECURSIVE ParseElements(_, _, _)

\* the members of an object from the key at s[p] on
ParseMembers(s, p, acc) ==
    IF p > Len(s) \/ s[p] # "\"" THEN Failed
    ELSE LET k == ParseString(s, p) IN
    IF ~k.ok THEN Failed
    ELSE LET c == SkipOver(s, k.pos, JsonSpace) IN
    IF c > Len(s) \/ s[c] # ":" THEN Failed
    ELSE LET x == ParseValue(s, SkipOver(s, c + 1, JsonSpace)) IN
    IF ~x.ok THEN Failed
    ELSE LET e == SkipOver(s, x.pos, JsonSpace)
             got == PutMember(acc, k.val.v, x.val) IN
    IF e > Len(s) THEN Failed
    ELSE IF s[e] = "}" THEN [ok |-> TRUE, val |-> Obj(got), pos |-> e + 1]
    ELSE IF s[e] = "," THEN ParseMembers(s, SkipOver(s, e + 1, JsonSpace), got)
    ELSE Failed

\* the elements of an array from the value at s[p] on
ParseElements(s, p, acc) ==
    LET x == ParseValue(s, p) IN
    IF ~x.ok THEN Failed
    ELSE LET e == SkipOver(s, x.pos, JsonSpace)
             got == Append(acc, x.val) IN
    IF e > Len(s) THEN Failed
    ELSE IF s[e] = "]" THEN [ok |-> TRUE, val |-> Arr(got), pos |-> e + 1]
    ELSE IF s[e] = "," THEN ParseElements(s, SkipOver(s, e + 1, JsonSpace), got)
    ELSE Failed

\* the value starting at s[p]
ParseValue(s, p) ==
    IF p > Len(s) THEN Failed
    ELSE IF s[p] = "\"" THEN ParseString(s, p)
    ELSE IF s[p] = "{" THEN
        LET q == SkipOver(s, p + 1, JsonSpace)
        IN IF q <= Len(s) /\ s[q] = "}"
           THEN [ok |-> TRUE, val |-> Obj(<<>>), pos |-> q + 1]
           ELSE ParseMembers(s, q, <<>>)
    ELSE IF s[p] = "[" THEN
        LET q == SkipOver(s, p + 1, JsonSpace)
        IN IF q <= Len(s) /\ s[q] = "]"
           THEN [ok |-> TRUE, val |-> Arr(<<>>), pos |-> q + 1]
           ELSE ParseElements(s, q, <<>>)
    ELSE IF s[p] \in Digits \cup {"-"} THEN ParseNumber(s, p)
    ELSE ParseLiteral(s, p)

\* json.loads(s): [ok |-> TRUE, val |-> value], or Failed for JSONDecodeError
JsonLoads(s) ==
    LET x == ParseValue(s, SkipOver(s, 1, JsonSpace))
    IN IF x.ok /\ SkipOver(s, x.pos, JsonSpace) = Len(s) + 1
       THEN [ok |-> TRUE, val |-> x.val]
       ELSE Failed

(***************************************************************************)
(* AIAPIDiscovery._clean_json_response                                     *)
(***************************************************************************)
\* the comma at i starts a match of ,\s*<closer>
CommaBefore(s, closer, i) ==
    /\ s[i] = ","
    /\ SkipOver(s, i + 1, RegexSpace) <= Len(s)
    /\ s[SkipOver(s, i + 1, RegexSpace)] = closer

\* re.sub(r',\s*<closer>', '<closer>', content), from index p on
RECURSIVE SubTrailingComma(_, _, _)
SubTrailingComma(s, closer, p) ==
    IF \E i \in p..Len(s) : CommaBefore(s, closer, i)
    THEN LET i == CHOOSE k \in p..Len(s) :
                      /\ CommaBefore(s, closer, k)
                      /\ \A j \in p..k - 1 : ~CommaBefore(s, closer, j)
             q == SkipOver(s, i + 1, RegexSpace)
         IN SubSeq(s, p, i - 1) \o <<closer>> \o SubTrailingComma(s, closer, q + 1)
    ELSE SubSeq(s, p, Len(s))

\* "//" starts at i
SlashesAt(s, i) == s[i] = "/" /\ i + 1 <= Len(s) /\ s[i + 1] = "/"

\* re.sub(r'//.*$', '', content, flags=re.MULTILINE), from index p on
RECURSIVE SubLineComments(_, _)
SubLineComments(s, p) ==
    IF \E i \in p..Len(s) : SlashesAt(s, i)
    THEN LET i == CHOOSE k \in p..Len(s) :
                      SlashesAt(s, k) /\ \A j \in p..k - 1 : ~SlashesAt(s, j)
             n == FindFrom(s, "\n", i)
         IN SubSeq(s, p, i - 1) \o (IF n = 0 THEN <<>> ELSE SubLineComments(s, n))
    ELSE SubSeq(s, p, Len(s))

\* the index of the first "*/" at or behind p, 0 when there is none
FindBlockEnd(s, p) ==
    IF \E i \in p..Len(s) - 1 : s[i] = "*" /\ s[i + 1] = "/"
    THEN CHOOSE i \in p..Len(s) - 1 :
             /\ s[i] = "*" /\ s[i + 1] = "/"
             /\ \A j \in p..i - 1 : ~(s[j] = "*" /\ s[j + 1] = "/")
    ELSE 0

\* a block comment that is closed starts at i
BlockAt(s, i) ==
    s[i] = "/" /\ i + 1 <= Len(s) /\ s[i + 1] = "*" /\ FindBlockEnd(s, i + 2) # 0

\* re.sub(r'/\*.*?\*/', '', content, flags=re.DOTALL), from index p on
RECURSIVE SubBlockComments(_, _)
SubBlockComments(s, p) ==
    IF \E i \in p..Len(s) : BlockAt(s, i)
    THEN LET i == CHOOSE k \in p..Len(s) :
                      BlockAt(s, k) /\ \A j \in p..k - 1 : ~BlockAt(s, j)
         IN SubSeq(s, p, i - 1) \o SubBlockComments(s, FindBlockEnd(s, i + 2) + 2)
    ELSE SubSeq(s, p, Len(s))

CleanJsonResponse(content) ==
    LET c1 == SubTrailingComma(content, "}", 1)
        c2 == SubTrailingComma(c1, "]", 1)
        c3 == SubLineComments(c2, 1)
        c4 == SubBlockComments(c3, 1)
    IN Strip(c4)

(***************************************************************************)
(* AIAPIDiscovery._salvage_json                                            *)
(***************************************************************************)
\* re.search(r'\{[\s\S]*\}', content): from the first "{" to the last "}"
JsonMatch(content) ==
    LET a == FindFrom(content, "{", 1)
        b == FindLast(content, "}")
    IN IF a = 0 \/ b < a THEN [found |-> FALSE]
       ELSE [found |-> TRUE, text |-> SubSeq(content, a, b)]

\* lines[:i] joined, the open brackets and braces closed, cleaned
Candidate(ls, i) ==
    LET partial == JoinLines(SubSeq(ls, 1, i))
        open_braces == CountChar(partial, "{") - CountChar(partial, "}")
        open_brackets == CountChar(partial, "[") - CountChar(partial, "]")
    IN CleanJsonResponse(
           partial \o Repeat("]", open_brackets) \o Repeat("}", open_braces))

\* for i in range(len(lines), 0, -1): the first candidate that decodes
RECURSIVE TryCandidates(_, _)
TryCandidates(ls, i) ==
    IF i < 1 THEN NoneValue
    ELSE LET r == JsonLoads(Candidate(ls, i))
         IN IF r.ok THEN r.val ELSE TryCandidates(ls, i - 1)

\* _salvage_json(content): the decoded object, or NoneValue
SalvageJson(content) ==
    LET m == JsonMatch(content)
    IN IF ~m.found THEN NoneValue
       ELSE TryCandidates(SplitLines(m.text), Len(SplitLines(m.text)))

(***************************************************************************)
(* The bodies the salvage routine is given: JSON object texts as the       *)
(* completion service writes them, cut short by the token limit            *)
(***************************************************************************)
\* most endpoint objects a body lists
MaxDocEndpoints == 2

\* the characters of a string, as a text
Chars(str) == [i \in 1..Len(str) |-> SubSeq(str, i, i)]

Member(key, val) == <<Chars(key), val>>

Text(str) == Str(Chars(str))

\* the endpoint objects a body may list
DocEndpoints ==
    { Obj(<<Member("method", Text("GET")), Member("path", Text("/users"))>>),
      Obj(<<Member("method", Text("POST")), Member("path", Text("/items")),
            Member("parameters", Arr(<<Text("id"), Text("q")>>))>>),
      Obj(<<Member("method", Text("DELETE")), Member("path", Text("/orders/{id}")),
            Member("description", Text("Cancel an order"))>>) }

\* the objects the service is asked for: the endpoints last, or followed by
\* one more field, or none at all
Docs ==
    { Obj(<<Member("company_name", Text("Acme")), Member("has_api", Lit(Chars("true")))>>) }
    \cup { Obj(<<Member("company_name", Text("Acme")),
                 Member("has_api", Lit(Chars("true"))),
                 Member("endpoints", Arr(eps))>>) :
             eps \in SeqsUpTo(DocEndpoints, MaxDocEndpoints) }
    \cup { Obj(<<Member("has_api", Lit(Chars("true"))),
                 Member("endpoints", Arr(eps)),
                 Member("api_type", Text("REST"))>>) :
             eps \in SeqsUpTo(DocEndpoints, MaxDocEndpoints) }

\* the line break and the indentation in front of an item at a nesting level
\* (nothing when the text is written on one line)
Break(indent, level) ==
    IF indent = 0 THEN <<>> ELSE <<"\n">> \o Repeat(" ", indent * level)

RECURSIVE Dumps(_, _, _)
RECURSIVE DumpItems(_, _, _, _)

\* the text of a JSON value: on one line when indent = 0, else one item per
\* line, indented by `indent` spaces per nesting level
Dumps(v, indent, level) ==
    IF v.t = "str" THEN <<"\"">> \o v.v \o <<"\"">>
    ELSE IF v.t \in {"num", "lit"} THEN v.v
    ELSE IF v.v = <<>> THEN (IF v.t = "arr" THEN <<"[", "]">> ELSE <<"{", "}">>)
    ELSE <<IF v.t = "arr" THEN "[" ELSE "{">>
         \o Break(indent, level + 1)
         \o DumpItems(v, 1, indent, level + 1)
         \o Break(indent, level)
         \o <<IF v.t = "arr" THEN "]" ELSE "}">>

\* the items of an array or object from the i-th on
DumpItems(v, i, indent, level) ==
    LET item == IF v.t = "arr" THEN Dumps(v.v[i], indent, level)
                ELSE <<"\"">> \o v.v[i][1] \o <<"\"", ":", " ">>
                     \o Dumps(v.v[i][2], indent, level)
    IN IF i = Len(v.v) THEN item
       ELSE item \o <<",">> \o (IF indent = 0 THEN <<" ">> ELSE Break(indent, level))
            \o DumpItems(v, i + 1, indent, level)

\* the complete texts: every object on one line and pretty-printed
Bodies == {Dumps(d, indent, 0) : d \in Docs, indent \in {0, 2}}

SalvageIdle ==
    /\ s_pc = "idle"
    /\ body = <<>>
    /\ s_content = <<>>
    /\ salvaged = NoneValue

SalvageInit ==
    /\ s_pc = "reply"
    /\ body \in Bodies
    /\ s_content = <<>>
    /\ salvaged = NoneValue

\* the reply arrives without its last 10 characters
CutTail ==
    /\ s_pc = "reply"
    /\ UNCHANGED notSalvageVars
    /\ Len(body) > 10
    /\ s_content' = SubSeq(body, 1, Len(body) - 10)
    /\ s_pc' = "cut"
    /\ UNCHANGED <<body, salvaged>>

\* salvaged = self._salvage_json(content)
Salvage ==
    /\ s_pc = "cut"
    /\ UNCHANGED notSalvageVars
    /\ salvaged' = SalvageJson(s_content)
    /\ s_pc' = "done"
    /\ UNCHANGED <<body, s_content>>

SalvageNext == CutTail \/ Salvage

(***************************************************************************)
(* Python string helpers of the heuristic agent                            *)
(***************************************************************************)
UpperCase == Chars("ABCDEFGHIJKLMNOPQRSTUVWXYZ")
LowerCase == Chars("abcdefghijklmnopqrstuvwxyz")

\* the letter of `to` at the place ch has in `from`, ch itself when it has none
MapChar(ch, from, to) ==
    IF \E i \in 1..Len(from) : from[i] = ch
    THEN to[CHOOSE i \in 1..Len(from) : from[i] = ch]
    ELSE ch

\* str.lower()
Lower(s) == [i \in 1..Len(s) |-> MapChar(s[i], UpperCase, LowerCase)]

\* str.upper()
Upper(s) == [i \in 1..Len(s) |-> MapChar(s[i], LowerCase, UpperCase)]

\* str.replace(ch, '')
Remove(s, ch) == SelectSeq(s, LAMBDA c : c # ch)

\* `w in s`
Contains(s, w) == \E i \in 1..Len(s) - Len(w) + 1 : SubSeq(s, i, i + Len(w) - 1) = w

\* the string made of the characters of a text
RECURSIVE Joined(_)
Joined(s) == IF s = <<>> THEN "" ELSE s[1] \o Joined(Tail(s))

\* BeautifulSoup(...).get_text(): the text outside the tags
RECURSIVE GetText(_, _)
GetText(s, p) ==
    LET a == FindFrom(s, "<", p)
        b == IF a = 0 THEN 0 ELSE FindFrom(s, ">", a)
    IN IF a = 0 \/ b = 0 THEN SubSeq(s, p, Len(s))
       ELSE SubSeq(s, p, a - 1) \o GetText(s, b + 1)

\* the exception classes `except Exception` catches
ExceptionClasses ==
    {"Timeout", "ConnectionError", "HTTPError", "FeatureNotFound", "ValueError",
     "AttributeError"}

Caught(exc) == exc \in ExceptionClasses

(***************************************************************************)
(* APIDiscoveryAgent.search_for_api_documentation                          *)
(***************************************************************************)
\* the value None of the return type Optional[str]
NoUrl == "None"

Companies == {"ExampleCorp", "Example Corp"}

\* company_name.lower().replace(' ', '')
CleanName(name) == Joined(Remove(Lower(Chars(name)), " "))

common_domains(name) ==
    << "https://api." \o CleanName(name) \o ".com",
       "https://developer." \o CleanName(name) \o ".com",
       "https://docs." \o CleanName(name) \o ".com",
       "https://" \o CleanName(name) \o ".com/api",
       "https://" \o CleanName(name) \o ".com/docs",
       "https://" \o CleanName(name) \o ".com/developers",
       "https://www." \o CleanName(name) \o ".com/api" >>

keywords == <<"api", "endpoint", "rest", "graphql", "documentation">>

\* what session.get does for one candidate: it raises, or answers with a
\* status and a page; `hit` notes whether the answer is a 200 whose visible
\* text holds a keyword
ProbeReplies ==
    { [raises |-> "Timeout", status_code |-> 0, text |-> "", hit |-> FALSE],
      [raises |-> "", status_code |-> 404, text |-> "API not found", hit |-> FALSE],
      [raises |-> "", status_code |-> 200, text |-> "Welcome home", hit |-> FALSE],
      [raises |-> "", status_code |-> 200, text |-> "<a href=\"/api\">Home</a>",
       hit |-> FALSE],
      [raises |-> "", status_code |-> 200, text |-> "REST API Endpoints", hit |-> TRUE] }

\* any(keyword in text for keyword in [...]) on soup.get_text().lower()
HasKeyword(text) ==
    \E k \in 1..Len(keywords) :
        Contains(Lower(GetText(Chars(text), 1)), Chars(keywords[k]))

\* a status test that lets every answer through
Qualifies_any_status(reply) == HasKeyword(reply.text)

\* the two tests a page passes to be returned
Qualifies(reply) == reply.status_code = 200 /\ HasKeyword(reply.text)

ProbeIdle ==
    /\ p_pc = "idle"
    /\ p_company = ""
    /\ probed = <<>>
    /\ p_result = NoUrl
    /\ p_raised = FALSE

ProbeInit ==
    /\ p_pc = "probing"
    /\ p_company \in Companies
    /\ probed = <<>>
    /\ p_result = NoUrl
    /\ p_raised = FALSE

\* one pass of `for url in common_domains`, with the return it leads to: the
\* url on a hit, None behind the last candidate
Probe ==
    /\ p_pc = "probing"
    /\ UNCHANGED notProbeVars
    /\ LET i == Len(probed) + 1
           urls == common_domains(p_company)
       IN \E reply \in ProbeReplies :
            /\ probed' = Append(probed, [url |-> urls[i], reply |-> reply])
            /\ IF reply.raises # ""
               THEN /\ p_raised' = ~Caught(reply.raises)
                    /\ p_result' = NoUrl
                    /\ p_pc' = IF ~Caught(reply.raises) \/ i = Len(urls)
                               THEN "returned" ELSE "probing"
               ELSE LET hit == Qualifies(reply)
                    IN /\ p_raised' = FALSE
                       /\ p_result' = IF hit THEN urls[i] ELSE NoUrl
                       /\ p_pc' = IF hit \/ i = Len(urls) THEN "returned" ELSE "probing"
    /\ UNCHANGED p_company

ProbeNext == Probe

(***************************************************************************)
(* APIDiscoveryAgent.extract_endpoints                                     *)
(***************************************************************************)
\* most matches one strategy finds on a page
MaxFound == 2

\* the element handed to _create_endpoint_dict by strategy 4
NoElement == [parent |-> "None"]

\* s[:n]
Cut(s, n) == SubSeq(s, 1, Min(n, Len(s)))

\* _create_endpoint_dict(method, path, element)
CreateEndpointDict(method, path, element) ==
    [ method |-> method,
      path |-> Joined(Strip(Chars(path))),
      description |-> IF element = NoElement THEN ""
                      ELSE Joined(Cut(Strip(Chars(element.parent)), 200)),
      full_endpoint |-> method \o " " \o Joined(Strip(Chars(path))) ]

\* if endpoint not in endpoints: endpoints.append(endpoint)
AppendNew(eps, endpoint) ==
    IF \E i \in 1..Len(eps) : eps[i] = endpoint THEN eps ELSE Append(eps, endpoint)

\* what re.findall yields in code blocks, table rows, headings and links:
\* the method as written, the path, and the text around the element
Found ==
    { [method |-> "GET", path |-> "/api/users", parent |-> " List users "],
      [method |-> "get", path |-> "/api/users", parent |-> "Fetch users"],
      [method |-> "POST", path |-> "/api/items", parent |-> ""] }

\* strategy 3 also matches a bare path
FoundInHeadings ==
    Found \cup {[method |-> "", path |-> "/api/users", parent |-> "List users"]}

\* what strategy 4 matches in the page text: a method and a full URL
FoundUrls ==
    { [method |-> "GET", full_url |-> "https://acme.com/api/users"],
      [method |-> "delete", full_url |-> "http://[acme/api/orders"] }

\* urlparse(full_url).path; ValueError when a "[" of the host is not closed
UrlPath(full_url) ==
    LET s == Chars(full_url)
        a == FindFrom(s, ":", 1) + 3
        slash == FindFrom(s, "/", a)
        netloc == IF slash = 0 THEN SubSeq(s, a, Len(s)) ELSE SubSeq(s, a, slash - 1)
        rest == IF slash = 0 THEN <<>> ELSE SubSeq(s, slash, Len(s))
        q == FindFrom(rest, "?", 1)
        h == FindFrom(rest, "#", 1)
        stop == IF q = 0 /\ h = 0 THEN Len(rest) + 1
                ELSE IF q = 0 THEN h ELSE IF h = 0 THEN q ELSE Min(q, h)
    IN IF (FindFrom(netloc, "[", 1) # 0) # (FindFrom(netloc, "]", 1) # 0)
       THEN [raises |-> "ValueError"]
       ELSE [raises |-> "", path |-> Joined(SubSeq(rest, 1, stop - 1))]

\* the loops of strategies 1 to 3 over their matches
RECURSIVE AddFound(_, _, _)
AddFound(eps, found, default_method) ==
    IF found = <<>> THEN eps
    ELSE LET m == found[1]
             method == IF m.method = "" THEN default_method ELSE m.method
         IN AddFound(AppendNew(eps, CreateEndpointDict(Joined(Upper(Chars(method))),
                                                       m.path, [parent |-> m.parent])),
                     Tail(found), default_method)

\* the loop of strategy 4 over its matches, up to the first URL urlparse rejects
RECURSIVE AddUrls(_, _)
AddUrls(eps, found) ==
    IF found = <<>> THEN [raises |-> "", endpoints |-> eps]
    ELSE LET parsed == UrlPath(found[1].full_url)
         IN IF parsed.raises # "" THEN [raises |-> parsed.raises, endpoints |-> eps]
            ELSE AddUrls(AppendNew(eps, CreateEndpointDict(
                                            Joined(Upper(Chars(found[1].method))),
                                            parsed.path, NoElement)),
                         Tail(found))

\* a handler that hands back what was collected
OnException_keep(eps) == eps

\* except Exception: return []
OnException(eps) == <<>>

\* what session.get does: it raises, or answers with a final status (a
\* redirect that names no target is not followed and comes back as it is)
FetchReplies ==
    { [raises |-> "Timeout", status_code |-> 0],
      [raises |-> "ConnectionError", status_code |-> 0],
      [raises |-> "", status_code |-> 200],
      [raises |-> "", status_code |-> 300],
      [raises |-> "", status_code |-> 404],
      [raises |-> "", status_code |-> 500] }

\* response.raise_for_status(): HTTPError for a 4xx or 5xx status
RaiseForStatus(status_code) ==
    IF 400 <= status_code /\ status_code < 600 THEN "HTTPError" ELSE ""

\* BeautifulSoup(response.text, 'lxml'): the parser may be missing
SoupOutcomes == {"", "FeatureNotFound"}

\* what the parsing calls of a strategy do: nothing, or raise
ParseOutcomes == {"", "AttributeError"}

ExtractIdle ==
    /\ e_pc = "idle"
    /\ e_endpoints = <<>>
    /\ extracted = <<>>
    /\ e_status = 0
    /\ e_failed = ""
    /\ e_lost = <<>>
    /\ e_raised = FALSE

ExtractInit ==
    /\ e_pc = "fetch"
    /\ e_endpoints = <<>>
    /\ extracted = <<>>
    /\ e_status = 0
    /\ e_failed = ""
    /\ e_lost = <<>>
    /\ e_raised = FALSE

\* the except clause, entered from position `at` with `eps` collected
Fails(at, exc, eps) ==
    /\ e_pc' = "returned"
    /\ e_failed' = at
    /\ e_lost' = eps
    /\ e_endpoints' = eps
    /\ e_raised' = ~Caught(exc)
    /\ extracted' = IF Caught(exc) THEN OnException(eps) ELSE <<>>

\* a strategy ends and the next one starts
Proceeds(next, eps) ==
    /\ e_pc' = next
    /\ e_endpoints' = eps
    /\ UNCHANGED <<extracted, e_failed, e_lost, e_raised>>

\* session.get, raise_for_status, BeautifulSoup, endpoints = []
Fetch ==
    /\ e_pc = "fetch"
    /\ UNCHANGED notExtractVars
    /\ \E reply \in FetchReplies, soup \in SoupOutcomes :
         /\ e_status' = reply.status_code
         /\ IF reply.raises # "" THEN Fails("fetch", reply.raises, e_endpoints)
            ELSE IF RaiseForStatus(reply.status_code) # ""
            THEN Fails("fetch", RaiseForStatus(reply.status_code), e_endpoints)
            ELSE IF soup # "" THEN Fails("fetch", soup, e_endpoints)
            ELSE Proceeds("code", <<>>)

\* strategy 1: method and path patterns in code blocks
CodeBlocks ==
    /\ e_pc = "code"
    /\ UNCHANGED notExtractVars
    /\ UNCHANGED e_status
    /\ \E found \in SeqsUpTo(Found, MaxFound), exc \in ParseOutcomes :
         IF exc # "" THEN Fails("code", exc, AddFound(e_endpoints, found, "GET"))
         ELSE Proceeds("tables", AddFound(e_endpoints, found, "GET"))

\* strategy 2: table rows
Tables ==
    /\ e_pc = "tables"
    /\ UNCHANGED notExtractVars
    /\ UNCHANGED e_status
    /\ \E found \in SeqsUpTo(Found, MaxFound), exc \in ParseOutcomes :
         IF exc # "" THEN Fails("tables", exc, AddFound(e_endpoints, found, "GET"))
         ELSE Proceeds("headings", AddFound(e_endpoints, found, "GET"))

\* strategy 3: links and headings
Headings ==
    /\ e_pc = "headings"
    /\ UNCHANGED notExtractVars
    /\ UNCHANGED e_status
    /\ \E found \in SeqsUpTo(FoundInHeadings, MaxFound), exc \in ParseOutcomes :
         IF exc # "" THEN Fails("headings", exc, AddFound(e_endpoints, found, "GET"))
         ELSE Proceeds("urls", AddFound(e_endpoints, found, "GET"))

\* strategy 4: full URLs in the page text, then return endpoints
UrlPatterns ==
    /\ e_pc = "urls"
    /\ UNCHANGED notExtractVars
    /\ UNCHANGED e_status
    /\ \E found \in SeqsUpTo(FoundUrls, MaxFound) :
         LET out == AddUrls(e_endpoints, found)
         IN IF out.raises # "" THEN Fails("urls", out.raises, out.endpoints)
            ELSE /\ e_pc' = "returned"
                 /\ e_endpoints' = out.endpoints
                 /\ extracted' = out.endpoints
                 /\ UNCHANGED <<e_failed, e_lost, e_raised>>

ExtractNext == Fetch \/ CodeBlocks \/ Tables \/ Headings \/ UrlPatterns

(***************************************************************************)
(* AIAPIDiscovery._make_api_request                                        *)
(***************************************************************************)
\* str.find(sub, p): the first index >= p where sub starts, 0 when there is none
FindText(s, sub, p) ==
    LET hits == {i \in p..Len(s) - Len(sub) + 1 : SubSeq(s, i, i + Len(sub) - 1) = sub}
    IN IF hits = {} THEN 0 ELSE CHOOSE i \in hits : \A j \in hits : i <= j

\* the mark of a markdown code block; "^" stands for the backquote
Fence == Chars("^^^")

JsonFence == Chars("^^^json")

\* content.split(opener)[1].split(fence)[0].strip()
BetweenFences(content, opener) ==
    LET a == FindText(content, opener, 1) + Len(opener)
        rest == SubSeq(content, a, Len(content))
        b == FindText(rest, Fence, 1)
    IN Strip(IF b = 0 THEN rest ELSE SubSeq(rest, 1, b - 1))

\* lines 192-195: the text inside a markdown code block, when there is one
StripFences(content) ==
    IF FindText(content, JsonFence, 1) # 0 THEN BetweenFences(content, JsonFence)
    ELSE IF FindText(content, Fence, 1) # 0 THEN BetweenFences(content, Fence)
    ELSE content

\* `if salvaged:` - None is false, and so is an empty dict
Truthy(v) == v.t # "none" /\ v.v # <<>>

\* _empty_result(company_name, error), as a JSON value
EmptyResultValue(company_name, error) ==
    Obj(<< Member("company_name", Text(company_name)),
           Member("has_api", Lit(Chars("false"))),
           Member("api_type", Text("")),
           Member("base_url", Text("")),
           Member("endpoints", Arr(<<>>)),
           Member("error", Text(error)) >>)

\* str(e) of a JSONDecodeError
DecodeMessage == "Expecting value"

\* completions that are no JSON object text: prose, an empty object followed
\* by prose, an object with a trailing comma
OddTexts ==
    { Chars("I cannot help with that."),
      Chars("{}") \o <<"\n">> \o Chars("No public API found."),
      Chars("{\"has_api\": true,}") }

\* objects whose string values hold what the cleanup looks for: '//' in a
\* URL, a block comment mark, a comma in front of a closing bracket
CommentLikeDocs ==
    { Obj(<<Member("has_api", Lit(Chars("true"))),
            Member("base_url", Text("https://api.example.com/v1")),
            Member("api_type", Text("REST"))>>),
      Obj(<<Member("has_api", Lit(Chars("true"))),
            Member("description", Text("a /* b */ c"))>>),
      Obj(<<Member("has_api", Lit(Chars("true"))),
            Member("description", Text("all of a, b, }"))>>),
      Obj(<<Member("has_api", Lit(Chars("true"))),
            Member("description", Text("list [a,]"))>>) }

CommentLikeTexts == {Dumps(d, indent, 0) : d \in CommentLikeDocs, indent \in {0, 2}}

\* the texts a completion carries: an object text as asked for, the same cut
\* short, or wrapped in a markdown code block with or without prose around it
CompletionTexts ==
    Bodies
    \cup {SubSeq(b, 1, Len(b) - 10) : b \in {x \in Bodies : Len(x) > 10}}
    \cup {JsonFence \o <<"\n">> \o b \o <<"\n">> \o Fence : b \in Bodies}
    \cup {Chars("Here it is:") \o <<"\n">> \o Fence \o <<"\n">> \o b \o <<"\n">>
          \o Fence \o <<"\n">> \o Chars("Done.") : b \in Bodies}
    \cup OddTexts
    \cup CommentLikeTexts

\* what requests.post does: it raises, or answers with a status and a body
\* that is no JSON, JSON without 'choices', or a completion
HttpAnswers ==
    {[raises |-> r.raises, status_code |-> r.status_code, body |-> "not_json",
      content |-> <<>>] : r \in FetchReplies}
    \cup {[raises |-> "", status_code |-> st, body |-> "no_choices", content |-> <<>>] :
            st \in {200, 300}}
    \cup {[raises |-> "", status_code |-> 200, body |-> "completion", content |-> t] :
            t \in CompletionTexts}
    \cup {[raises |-> "", status_code |-> 300, body |-> "completion", content |-> t] :
            t \in OddTexts}

Unbound == [bound |-> FALSE, text |-> <<>>]

RequestIdle ==
    /\ q_pc = "idle"
    /\ q_http = [raises |-> "", status_code |-> 0, body |-> "not_json", content |-> <<>>]
    /\ q_content = Unbound
    /\ q_result = NoneValue
    /\ q_exc = ""
    /\ q_tried = "untried"
    /\ q_requests = 0

RequestInit ==
    /\ q_pc = "post"
    /\ q_http \in HttpAnswers
    /\ q_content = Unbound
    /\ q_result = NoneValue
    /\ q_exc = ""
    /\ q_tried = "untried"
    /\ q_requests = 0

\* return v
Returns(v) ==
    /\ q_pc' = "returned"
    /\ q_result' = v
    /\ q_exc' = ""

\* lines 159-189 and the handlers they reach: the request, raise_for_status,
\* response.json() and the completion text. The JSONDecodeError of
\* response.json() goes to the first handler, which reads `content` before
\* anything was assigned to it
Post ==
    /\ q_pc = "post"
    /\ UNCHANGED notRequestVars
    /\ q_requests' = q_requests + 1
    /\ UNCHANGED <<q_http, q_tried>>
    /\ IF q_http.raises # ""
       THEN /\ Returns(EmptyResultValue(CompanyName, "API request error: " \o q_http.raises))
            /\ UNCHANGED q_content
       ELSE IF RaiseForStatus(q_http.status_code) # ""
       THEN /\ Returns(EmptyResultValue(CompanyName, "API request error: HTTPError"))
            /\ UNCHANGED q_content
       ELSE IF q_http.body = "not_json"
       THEN /\ q_pc' = "raised"
            /\ q_exc' = "UnboundLocalError"
            /\ UNCHANGED <<q_result, q_content>>
       ELSE IF q_http.body = "no_choices"
       THEN /\ Returns(EmptyResultValue(CompanyName, "'choices'"))
            /\ UNCHANGED q_content
       ELSE /\ q_content' = [bound |-> TRUE, text |-> Strip(q_http.content)]
            /\ q_pc' = "decode"
            /\ UNCHANGED <<q_result, q_exc>>

\* lines 192-213: the code block, the cleanup, json.loads and its handler
Decode ==
    /\ q_pc = "decode"
    /\ UNCHANGED notRequestVars
    /\ UNCHANGED <<q_http, q_requests>>
    /\ LET cleaned == CleanJsonResponse(StripFences(q_content.text))
           loaded == JsonLoads(cleaned)
           found == SalvageJson(cleaned)
       IN /\ q_content' = [bound |-> TRUE, text |-> cleaned]
          /\ IF loaded.ok
             THEN Returns(loaded.val) /\ UNCHANGED q_tried
             ELSE /\ q_tried' = IF found = NoneValue THEN "none" ELSE "some"
                  /\ IF Truthy(found)
                     THEN Returns(found)
                     ELSE Returns(EmptyResultValue(CompanyName,
                                      "JSON parse error: " \o DecodeMessage))

RequestNext == Post \/ Decode

(***************************************************************************)
(* The command-line entry points: main() of src/src/main.py (AI) and of    *)
(* src/main.py (heuristic)                                                 *)
(***************************************************************************)
MainIdle ==
    /\ m_cli = ""
    /\ m_pc = "idle"
    /\ m_env = FALSE
    /\ m_doc_url = NoUrl
    /\ m_caught = ""
    /\ m_exit = -1

MainInitAI ==
    /\ m_cli = "ai"
    /\ m_pc = "ai_start"
    /\ m_env \in BOOLEAN
    /\ m_doc_url = NoUrl
    /\ m_caught = ""
    /\ m_exit = -1

MainInitHeuristic ==
    /\ m_cli = "heuristic"
    /\ m_pc = "h_start"
    /\ m_env = FALSE
    /\ m_doc_url = NoUrl
    /\ m_caught = ""
    /\ m_exit = -1

\* the process ends with `code`; `exc` is what the handler of main caught
Exits(code, exc) ==
    /\ m_pc' = "exited"
    /\ m_exit' = code
    /\ m_caught' = exc

\* a constructor that takes any key, a missing one too
ConstructRaises_never(api_key, env) == FALSE

\* AIAPIDiscovery.__init__: self.api_key = api_key or os.getenv(...) is empty
\* ("" stands for the argument None)
ConstructRaises(api_key, env) == api_key = "" /\ ~env

\* agent = AIAPIDiscovery(): ValueError without a key, else main goes on to
\* call agent.search_company_api(args.company)
ConstructAgent ==
    /\ m_pc = "ai_start"
    /\ UNCHANGED <<exportVars, salvageVars, probeVars, extractVars, requestVars, m_cli, m_env, m_doc_url>>
    /\ IF ConstructRaises("", m_env)
       THEN /\ Exits(1, "ValueError")
            /\ UNCHANGED loopVars
       ELSE /\ m_pc' = "ai_search"
            /\ pc' = "start"
            /\ UNCHANGED <<requests, result, all_endpoints, iteration, rounds,
                           reported, last_repeats, last_listed, first_reply,
                           m_caught, m_exit>>

\* the keys main reads with api_info[...] before it exports
DisplayKeys == {"main_documentation_url", "api_type", "description"}

\* src/src/main.py from the has_api test to the end of main, once
\* search_company_api has returned or raised
ReportAI ==
    /\ m_pc = "ai_search"
    /\ pc \in {"done", "raised"}
    /\ UNCHANGED <<loopVars, salvageVars, probeVars, extractVars, requestVars, m_cli, m_env, m_doc_url>>
    /\ IF pc = "raised"
       THEN /\ Exits(1, IF rounds[Len(rounds)].kind = "not_json"
                        THEN "UnboundLocalError"
                        ELSE IF all_endpoints = NoneList THEN "TypeError"
                        ELSE IF /\ all_endpoints = EmptyText
                                /\ \A i \in 1..Len(last_listed) :
                                      HasKeyFields(last_listed[i])
                        THEN "AttributeError"
                        ELSE "KeyError")
            /\ UNCHANGED exportVars
       ELSE IF ~TruthyFlag(result, "has_api") THEN Exits(1, "") /\ UNCHANGED exportVars
       ELSE IF ~(DisplayKeys \subseteq DOMAIN result)
       THEN Exits(1, "KeyError") /\ UNCHANGED exportVars
       ELSE \E filename \in FilenameArgs :
              \* sorted('') is []: an endpoints field '' exports as no rows
              LET api_info == IF Get(result, "endpoints", <<>>) = EmptyText
                              THEN SetItem(result, "endpoints", <<>>) ELSE result
              IN
              /\ sheet' = AISheet(api_info)
              /\ files' = files \cup {AIFilename(result, filename)}
              /\ export_input' = Get(api_info, "endpoints", <<>>)
              /\ x_after' = AfterSorted(Get(api_info, "endpoints", <<>>))
              /\ x_pc' = "ai"
              /\ Exits(0, "")

\* what search_for_api_documentation hands to discover_api: None or a candidate
SearchResults ==
    {NoUrl} \cup {common_domains("ExampleCorp")[i] :
                     i \in 1..Len(common_domains("ExampleCorp"))}

\* the single record main writes when nothing was extracted
Placeholder(doc_url) ==
    [ method |-> "N/A", path |-> "N/A",
      full_endpoint |-> "See documentation URL above",
      description |-> "Automatic extraction failed. Please visit " \o doc_url
                      \o " to view endpoints." ]

\* a test that lets None through
NoDocs_never(doc_url) == FALSE

\* `if not doc_url`, in discover_api and in main
NoDocs(doc_url) == doc_url = NoUrl

\* src/main.py up to the call of extract_endpoints inside discover_api:
\* without a URL discover_api returns (None, []) and main exits with 1
SearchDocs ==
    /\ m_pc = "h_start"
    /\ UNCHANGED <<loopVars, exportVars, salvageVars, probeVars, requestVars, m_cli, m_env>>
    /\ \E url \in SearchResults :
         /\ m_doc_url' = url
         /\ IF NoDocs(url)
            THEN /\ Exits(1, "")
                 /\ UNCHANGED extractVars
            ELSE /\ m_pc' = "h_extract"
                 /\ e_pc' = "fetch"
                 /\ UNCHANGED <<e_endpoints, extracted, e_status, e_failed, e_lost,
                                e_raised, m_caught, m_exit>>

\* a test that takes every list for a finding
NoEndpoints_never(endpoints) == FALSE

\* `if not endpoints` in main
NoEndpoints(endpoints) == endpoints = <<>>

\* src/main.py from `if not endpoints` to the end of main
ReportHeuristic ==
    /\ m_pc = "h_extract"
    /\ e_pc = "returned"
    /\ UNCHANGED <<loopVars, salvageVars, probeVars, extractVars, requestVars, m_cli, m_env, m_doc_url>>
    /\ IF e_raised THEN Exits(1, "Exception") /\ UNCHANGED exportVars
       ELSE \E company \in ExportCompanies, filename \in FilenameArgs :
              LET endpoints == IF NoEndpoints(extracted) THEN <<Placeholder(m_doc_url)>>
                               ELSE extracted
              IN /\ sheet' = HeuristicSheet(company, m_doc_url, endpoints)
                 /\ files' = files \cup {HeuristicFilename(company, filename)}
                 /\ export_input' = endpoints
                 /\ x_after' = endpoints
                 /\ x_pc' = "heuristic"
                 /\ Exits(0, "")

MainNext ==
    \/ ConstructAgent \/ FirstPass \/ PromptFails \/ AdditionalPass \/ RequestRaises
    \/ ReportAI
    \/ SearchDocs \/ Fetch \/ CodeBlocks \/ Tables \/ Headings \/ UrlPatterns
    \/ ReportHeuristic

(***************************************************************************)
(* Specifications                                                          *)
(***************************************************************************)
\* a call of search_company_api, nothing else going on
InitOfLoop == LoopInit /\ ExportInit /\ SalvageIdle /\ ProbeIdle /\ ExtractIdle /\ MainIdle /\ RequestIdle

SpecLoop == InitOfLoop /\ [][LoopNext]_vars

\* one call of one exporter, nothing else going on
InitOfExport == ExportInit /\ LoopIdle /\ SalvageIdle /\ ProbeIdle /\ ExtractIdle /\ MainIdle /\ RequestIdle

SpecExport == InitOfExport /\ [][ExportNext]_vars

\* a reply cut short and handed to _salvage_json
InitOfSalvage == SalvageInit /\ LoopIdle /\ ExportInit /\ ProbeIdle /\ ExtractIdle /\ MainIdle /\ RequestIdle

SpecSalvage == InitOfSalvage /\ [][SalvageNext]_vars

\* one call of search_for_api_documentation
InitOfProbe == ProbeInit /\ LoopIdle /\ ExportInit /\ SalvageIdle /\ ExtractIdle /\ MainIdle /\ RequestIdle

SpecProbe == InitOfProbe /\ [][ProbeNext]_vars

\* one call of extract_endpoints
InitOfExtract == ExtractInit /\ LoopIdle /\ ExportInit /\ SalvageIdle /\ ProbeIdle /\ MainIdle /\ RequestIdle

SpecExtract == InitOfExtract /\ [][ExtractNext]_vars

\* one run of one of the two command lines
InitOfMain ==
    /\ MainInitAI \/ MainInitHeuristic
    /\ LoopIdle /\ ExportInit /\ SalvageIdle /\ ProbeIdle /\ ExtractIdle
    /\ RequestIdle

\* one call of _make_api_request
InitOfRequest ==
    /\ RequestInit
    /\ LoopIdle /\ ExportInit /\ SalvageIdle /\ ProbeIdle /\ ExtractIdle /\ MainIdle

SpecRequest == InitOfRequest /\ [][RequestNext]_vars

SpecMain == InitOfMain /\ [][MainNext]_vars

(***************************************************************************)
(* Properties of the discovery loop                                        *)
(***************************************************************************)
AllLaterRoundsNew == \A k \in 2..Len(rounds) : rounds[k].new > 0

\* C1: search_company_api never sends more than 5 requests, and sends exactly
\* 5 when round 1 reports an API and every later round brings a new endpoint
C1_RequestCap ==
    /\ requests <= 5
    /\ requests = Len(rounds)
    /\ (pc = "done" /\ reported = "true" /\ AllLaterRoundsNew) => requests = 5

\* five rounds were made, each later one brought something new, and the
\* catalogue still holds a pair a sixth round could have brought
C1_Witness ==
    /\ pc = "done" /\ reported = "true" /\ requests = 5
    /\ AllLaterRoundsNew
    /\ \E j \in 1..Len(Catalogue) : Catalogue[j] \notin PairsOf(all_endpoints)

\* C2: once round 1 reported an API, the first round k >= 2 whose reply brings
\* no new (method, path) is the last one: k requests were made, the call is over
C2_StopsAtFirstRoundWithoutNew ==
    reported = "true" =>
        \A k \in 2..Len(rounds) :
            (rounds[k].kind \notin {"keyerror", "not_json"} /\ rounds[k].new = 0) =>
                /\ k = Len(rounds)
                /\ requests = k
                /\ pc = "done"

\* round 2 listed accumulated endpoints only, and the call ended with 2 requests
C2_Witness ==
    /\ pc = "done" /\ reported = "true" /\ requests = 2
    /\ rounds[2].kind = "decoded" /\ rounds[2].new = 0
    /\ last_repeats # {}

\* C3: when the round-1 reply says has_api false, the call returns after that
\* one request with has_api false in the result
C3_NoApiShortCircuit ==
    reported = "false" =>
        /\ pc = "done"
        /\ requests = 1
        /\ Len(rounds) = 1
        /\ "has_api" \in DOMAIN result /\ result.has_api = FALSE

\* a decoded round-1 reply that lists endpoints and still says has_api false
C3_Witness ==
    /\ reported = "false" /\ pc = "done"
    /\ rounds[1].kind = "decoded" /\ rounds[1].new > 0

\* C4: a (method, path) that a round k >= 2 lists again has exactly one entry
\* in the merged list, and that entry is the earlier round's
C4_OneEntryPerRepeatedKey ==
    \A pr \in last_repeats :
        /\ CountPair(all_endpoints, pr) = 1
        /\ \A i \in 1..Len(all_endpoints) :
              ("method" \in DOMAIN all_endpoints[i] /\ PairOf(all_endpoints[i]) = pr)
                  => all_endpoints[i].description # RoundDesc(requests)

\* C5: the endpoints list of a result returned after the additional rounds
\* holds no (method, path) twice
C5_ResultDeduplicated ==
    (pc = "done" /\ reported = "true") =>
        \A pr \in PairsOf(Get(result, "endpoints", <<>>)) :
            CountPair(Get(result, "endpoints", <<>>), pr) = 1

\* a is a prefix of b
IsPrefix(a, b) == Len(a) <= Len(b) /\ SubSeq(b, 1, Len(a)) = a

\* the entries of a reply whose (method, path) is not among eps, in the order
\* the reply lists them
FreshEntries(listed, eps) ==
    LET Fresh(e) == "method" \notin DOMAIN e \/ PairOf(e) \notin PairsOf(eps)
    IN SelectSeq(listed, Fresh)

\* C21: over every round the accumulated list keeps what it held as a prefix,
\* what is appended are the reply's entries with a new (method, path) in the
\* reply's order, and a round after which the loop goes on has added at least
\* one endpoint
C21_ListOnlyGrows ==
    [][requests' = requests + 1 =>
          /\ IsPrefix(all_endpoints, all_endpoints')
          /\ all_endpoints' # all_endpoints =>
                all_endpoints' = all_endpoints \o FreshEntries(last_listed', all_endpoints)
          /\ pc' = "loop" => Len(all_endpoints') > Len(all_endpoints)]_vars

\* a reply so far listed a record without 'method' or 'path'
PartialListed ==
    \/ /\ all_endpoints \notin NonLists
       /\ \E i \in 1..Len(all_endpoints) :
            ~({"method", "path"} \subseteq DOMAIN all_endpoints[i])
    \/ /\ last_listed \notin NonLists
       /\ \E i \in 1..Len(last_listed) :
            ~({"method", "path"} \subseteq DOMAIN last_listed[i])

\* C22: a reply that lists a record without 'method' or 'path' does not make
\* search_company_api raise: the call goes on or returns a result
C22_PartialRecordsTolerated ==
    PartialListed => pc \in {"loop", "done"}

\* two complete records with the same path whose methods differ in letter
\* case only
CaseVariants(a, b) ==
    /\ {"method", "path"} \subseteq DOMAIN a
    /\ {"method", "path"} \subseteq DOMAIN b
    /\ a.path = b.path
    /\ a.method # b.method
    /\ Upper(Chars(a.method)) = Upper(Chars(b.method))

\* a record with the (method, path) of e is in the list
Holds(eps, e) ==
    \E i \in 1..Len(eps) : "method" \in DOMAIN eps[i] /\ PairOf(eps[i]) = PairOf(e)

\* C24: when an additional round lists a record whose path is accumulated
\* with a method that differs in letter case only, and that does not raise,
\* the record is appended: both entries are in the accumulated list, and in
\* the result when the call returns
C24_CaseSensitiveKey ==
    [][(requests >= 1 /\ requests' = requests + 1 /\ pc' # "raised") =>
          \A i \in 1..Len(last_listed'), j \in 1..Len(all_endpoints) :
              (/\ CaseVariants(last_listed'[i], all_endpoints[j])
               /\ ~Holds(all_endpoints, last_listed'[i])) =>
                  /\ \E n \in Len(all_endpoints) + 1 .. Len(all_endpoints') :
                        all_endpoints'[n] = last_listed'[i]
                  /\ all_endpoints'[j] = all_endpoints[j]
                  /\ pc' = "done" => result'.endpoints = all_endpoints']_vars

\* the call returned with GET /users of round 1 and get /users of round 2
C24_Witness ==
    /\ pc = "done"
    /\ requests >= 2
    /\ \E i, j \in 1..Len(result.endpoints) :
          /\ i < j
          /\ CaseVariants(result.endpoints[i], result.endpoints[j])
          /\ result.endpoints[i].description = "r1"
          /\ result.endpoints[j].description = "r2"

\* what became of a request that brought no reply to work with: an
\* empty/error result, or an answer that was no JSON at all
FailureKinds == {"transport", "parse", "not_json"}

\* C25: when round 1 reported an API and the request of a later round fails
\* (transport failure, or a reply that neither decodes nor salvages), the
\* call returns without another request; the result has has_api true, its
\* endpoints are those accumulated before the round, and it has no error field
C25_LaterFailureKeepsResult ==
    [][(/\ reported = "true"
        /\ requests >= 1
        /\ requests' = requests + 1
        /\ rounds'[Len(rounds')].kind \in FailureKinds) =>
          /\ pc' = "done"
          /\ "has_api" \in DOMAIN result' /\ result'.has_api = TRUE
          /\ "endpoints" \in DOMAIN result' /\ result'.endpoints = all_endpoints
          /\ "error" \notin DOMAIN result']_vars

\* the header fields that search_company_api fills, with their defaults
HeaderDefaults ==
    [base_url |-> "N/A", api_type |-> "REST", company_name |-> CompanyName]

\* the list a reply stands for: its endpoints, the empty list when the field
\* is missing or holds no list
ListedOrEmpty(reply) ==
    LET listed == Get(reply, "endpoints", <<>>)
    IN IF listed \in NonLists THEN <<>> ELSE listed

TableHeaderRow == IF x_pc = "ai" THEN first_meta_row + 6 ELSE header_row

\* the rows of the sheet below the table header that hold a cell
DataRows == {c[1] : c \in {d \in DOMAIN sheet.cells : d[1] > TableHeaderRow}}

\* the (method, path) pairs of the data rows
RowPairs == {<<sheet.cells[<<r, 1>>], sheet.cells[<<r, 2>>]>> : r \in DataRows}

\* the (method, path) pairs of the input, a missing field read as ''
InputPairs ==
    {<<Get(export_input[i], "method", ""), Get(export_input[i], "path", "")>> :
        i \in 1..Len(export_input)}

\* C6: the heuristic exporter writes rows 7 .. 6+n for n endpoints, row 6+i
\* holding the i-th endpoint's method, path and description, and B3 = n
C6_OneRowPerEndpoint ==
    x_pc = "heuristic" =>
        LET n == Len(export_input) IN
        /\ DataRows = 7 .. 6 + n
        /\ sheet.cells[<<3, 2>>] = n
        /\ \A i \in 1..n :
              /\ sheet.cells[<<6 + i, 1>>] = Get(export_input[i], "method", "")
              /\ sheet.cells[<<6 + i, 2>>] = Get(export_input[i], "path", "")
              /\ sheet.cells[<<6 + i, 4>>] = Get(export_input[i], "description", "")

\* a list of three with two entries that differ in the description only
C6_Witness ==
    /\ x_pc = "heuristic"
    /\ Len(export_input) = 3
    /\ export_input[1] # export_input[3]
    /\ export_input[1].path = export_input[3].path
    /\ sheet.cells[<<9, 4>>] = "Users again"

\* every record of the input carries a method and a path
InputComplete ==
    \A i \in 1..Len(export_input) :
        "method" \in DOMAIN export_input[i] /\ "path" \in DOMAIN export_input[i]

\* C7 as stated: one data row per distinct (method, path) of the input
C7_OneRowPerDistinctKey ==
    (x_pc # "idle" /\ InputComplete) =>
        Cardinality(DataRows) = Cardinality(InputPairs)

\* C7 amended: one data row per entry of the input, repeats included; the
\* pairs in the rows are exactly the distinct pairs of the input
C7_OneRowPerInputEntry ==
    x_pc # "idle" =>
        /\ Cardinality(DataRows) = Len(export_input)
        /\ RowPairs = InputPairs

\* three entries with two distinct (method, path) pairs were written
C7_Witness ==
    /\ x_pc # "idle"
    /\ Len(export_input) = 3
    /\ Cardinality(InputPairs) = 2
    /\ Cardinality(DataRows) = 3

\* the (path, method) key of the data row r
RowKey(r) == <<sheet.cells[<<r, 2>>], sheet.cells[<<r, 1>>]>>

\* the (path, method) key of the i-th entry of the input, a missing field read as ''
InputKey(i) == <<Get(export_input[i], "path", ""), Get(export_input[i], "method", "")>>

\* k1 <= k2 for two (path, method) keys
KeyAtMost(k1, k2) ==
    \/ StrLess(k1[1], k2[1])
    \/ k1[1] = k2[1] /\ ~StrLess(k2[2], k1[2])

\* the one-to-one assignments of n rows to n entries
Perms(n) == {f \in [1..n -> 1..n] : \A i, j \in 1..n : f[i] = f[j] => i = j}

\* C19: the AI exporter writes one row per endpoint of the result, the rows in
\* non-decreasing order of (path, method), entries of equal (path, method) in
\* their input order; the endpoints list of the result keeps its order
C19_SortedStableRows ==
    x_pc = "ai" =>
        LET n == Len(export_input)
            h == first_meta_row + 6
        IN /\ DataRows = h + 1 .. h + n
           /\ \A r \in h + 1 .. h + n - 1 : KeyAtMost(RowKey(r), RowKey(r + 1))
           /\ \E f \in Perms(n) :
                /\ \A i \in 1..n :
                      /\ sheet.cells[<<h + i, 1>>] = Get(export_input[f[i]], "method", "")
                      /\ sheet.cells[<<h + i, 2>>] = Get(export_input[f[i]], "path", "")
                      /\ sheet.cells[<<h + i, 3>>] = Get(export_input[f[i]], "description", "")
                /\ \A i, j \in 1..n :
                      (i < j /\ InputKey(f[i]) = InputKey(f[j])) => f[i] < f[j]
           /\ x_after = export_input

\* an input out of order whose first and last entries share (path, method):
\* the middle entry was written first and the two others kept their order
C19_Witness ==
    /\ x_pc = "ai"
    /\ Len(export_input) = 3
    /\ Get(export_input[1], "description", "") = "Users again"
    /\ Get(export_input[2], "path", "") = "/items"
    /\ Get(export_input[3], "description", "") = "List users"
    /\ sheet.cells[<<first_meta_row + 7, 2>>] = "/items"
    /\ sheet.cells[<<first_meta_row + 8, 3>>] = "Users again"
    /\ sheet.cells[<<first_meta_row + 9, 3>>] = "List users"

\* C20: the heuristic exporter writes its data rows, rows 7 and below, in
\* non-decreasing order of (path, method), whatever the order of the input
C20_HeuristicRowsSorted ==
    x_pc = "heuristic" =>
        \A r \in DataRows : r + 1 \in DataRows => KeyAtMost(RowKey(r), RowKey(r + 1))

(***************************************************************************)
(* Properties of the salvage routine                                       *)
(***************************************************************************)
\* a is b without trailing members or elements: every item of a but the last
\* is the item of b at its place, and the last one is itself such a cut
RECURSIVE Trimmed(_, _)
Trimmed(a, b) ==
    IF a.t # b.t THEN FALSE
    ELSE IF a.t = "arr" THEN
        /\ Len(a.v) <= Len(b.v)
        /\ \A i \in 1..Len(a.v) - 1 : a.v[i] = b.v[i]
        /\ Len(a.v) > 0 => Trimmed(a.v[Len(a.v)], b.v[Len(a.v)])
    ELSE IF a.t = "obj" THEN
        /\ Len(a.v) <= Len(b.v)
        /\ \A i \in 1..Len(a.v) - 1 : a.v[i] = b.v[i]
        /\ Len(a.v) > 0 =>
              /\ a.v[Len(a.v)][1] = b.v[Len(a.v)][1]
              /\ Trimmed(a.v[Len(a.v)][2], b.v[Len(a.v)][2])
    ELSE a = b

\* C8: _salvage_json applied to a valid JSON object text without its last 10
\* characters returns an object, and that object is the original one less
\* the trailing fields and elements the cut removed
C8_SalvageRecoversTruncated ==
    s_pc = "done" =>
        /\ salvaged # NoneValue
        /\ Trimmed(salvaged, JsonLoads(body).val)

(***************************************************************************)
(* Properties of the URL probing                                           *)
(***************************************************************************)
\* the seven candidates of a company written "Example Corp" or "ExampleCorp"
CandidateUrls ==
    << "https://api.examplecorp.com", "https://developer.examplecorp.com",
       "https://docs.examplecorp.com", "https://examplecorp.com/api",
       "https://examplecorp.com/docs", "https://examplecorp.com/developers",
       "https://www.examplecorp.com/api" >>

\* the candidates requested so far whose answer qualifies
Hits == {i \in 1..Len(probed) : probed[i].reply.hit}

\* C9: the candidates are probed in list order; a probe that raises, answers
\* non-200 or lacks every keyword is skipped; the first qualifying candidate
\* is returned and nothing after it is probed; with no qualifying candidate
\* all are probed and None is returned; no exception leaves the search
C9_FirstHitInOrder ==
    /\ p_raised = FALSE
    /\ Len(probed) <= Len(CandidateUrls)
    /\ \A i \in 1..Len(probed) : probed[i].url = CandidateUrls[i]
    /\ \A i \in Hits : i = Len(probed) /\ p_pc = "returned" /\ p_result = probed[i].url
    /\ (p_pc = "returned" /\ Hits = {}) =>
          /\ p_result = NoUrl
          /\ Len(probed) = Len(CandidateUrls)
    /\ (p_pc = "probing") => Hits = {}
    /\ (p_pc = "returned" /\ 1 \in Hits) => p_result = "https://api.examplecorp.com"

\* a timeout, a 404 and then a qualifying page: the third candidate is returned
C9_Witness ==
    /\ p_pc = "returned"
    /\ Len(probed) = 3
    /\ probed[1].reply.raises = "Timeout"
    /\ probed[2].reply.status_code = 404
    /\ probed[3].reply.hit
    /\ p_result = "https://docs.examplecorp.com"

C11_ExtractedDistinctKeys ==
    e_pc = "returned" =>
        \A i, j \in 1..Len(extracted) :
            (extracted[i].method = extracted[j].method
             /\ extracted[i].path = extracted[j].path) => i = j

(***************************************************************************)
(* Properties of the command-line entry points                             *)
(***************************************************************************)
\* search_company_api returned a has_api result with the agent's five keys
AgentFoundApi ==
    /\ pc = "done"
    /\ TruthyFlag(result, "has_api")
    /\ {"company_name", "has_api", "api_type", "base_url", "endpoints"}
          \subseteq DOMAIN result

\* C12: when the AI main ends after search_company_api returned a has_api
\* result in the agent's shape, the exporter was invoked, a spreadsheet was
\* written and the exit code is 0
C12_ApiFoundExitsZero ==
    (m_pc = "exited" /\ AgentFoundApi) =>
        /\ m_exit = 0
        /\ x_pc = "ai"
        /\ files # {}

\* C13: without a key in the environment the constructor raises before any
\* request is sent; the AI main then ends with exit code 1 and no spreadsheet
C13_NoKeyNoRequest ==
    (m_cli = "ai" /\ ~m_env) =>
        /\ requests = 0
        /\ pc = "idle"
        /\ x_pc = "idle" /\ files = {}
        /\ m_pc \in {"ai_start", "exited"}
        /\ m_pc = "exited" => (m_exit = 1 /\ m_caught = "ValueError")

\* the run without a key has ended
C13_Witness ==
    /\ m_cli = "ai"
    /\ ~m_env
    /\ m_pc = "exited"
    /\ m_exit = 1
    /\ requests = 0
    /\ files = {}

\* the heuristic main found no documentation URL, or the AI main got a result
\* whose has_api is false or absent
TotalFailure ==
    \/ m_cli = "heuristic" /\ m_doc_url = NoUrl
    \/ m_cli = "ai" /\ pc = "done" /\ ("has_api" \notin DOMAIN result \/ result.has_api # TRUE)

\* C14: a main that ends in total failure (no documentation URL in the
\* heuristic CLI, has_api false in the AI CLI) ends with exit code 1 through
\* sys.exit, not through a caught exception, without invoking the exporter
\* and without writing a file
C14_TotalFailureNoFile ==
    (m_pc = "exited" /\ TotalFailure) =>
        /\ m_exit = 1
        /\ m_caught = ""
        /\ x_pc = "idle"
        /\ files = {}
        /\ sheet = [title |-> "Sheet", cells |-> NoCells]

\* the heuristic main has ended without a documentation URL
C14_Witness ==
    /\ m_cli = "heuristic"
    /\ m_pc = "exited"
    /\ m_doc_url = NoUrl
    /\ m_exit = 1
    /\ files = {}

\* C15: when the heuristic main ends after a documentation URL was found and
\* extract_endpoints returned the empty list, the exporter was called with
\* exactly one placeholder record (method and path 'N/A'), the sheet has one
\* data row, its endpoint count is 1, a file exists and the exit code is 0
C15_PlaceholderRow ==
    (m_cli = "heuristic" /\ m_pc = "exited" /\ m_doc_url # NoUrl /\ extracted = <<>>) =>
        /\ m_exit = 0
        /\ x_pc = "heuristic"
        /\ Len(export_input) = 1
        /\ export_input[1].method = "N/A"
        /\ export_input[1].path = "N/A"
        /\ sheet.cells[<<3, 2>>] = 1
        /\ DataRows = {header_row + 1}
        /\ sheet.cells[<<header_row + 1, 1>>] = "N/A"
        /\ sheet.cells[<<header_row + 1, 2>>] = "N/A"
        /\ files # {}

\* the placeholder was written because the fetch of the documentation failed
C15_Witness ==
    /\ m_cli = "heuristic"
    /\ m_pc = "exited"
    /\ m_doc_url # NoUrl
    /\ e_failed = "fetch"
    /\ extracted = <<>>
    /\ m_exit = 0
    /\ Len(export_input) = 1

\* C17: a transport failure in an additional round k, 2 <= k < 5, ends that
\* round only: the round is not sent again and the loop is still running, so
\* that round k+1 is issued next
C17_FailedRoundContinues ==
    \A k \in 2..max_iterations - 1 :
        (Len(rounds) = k /\ rounds[k].kind = "transport") =>
            /\ requests = k
            /\ pc = "loop"

(***************************************************************************)
(* Properties of _make_api_request                                         *)
(***************************************************************************)
\* the value of a key of a JSON object (NoneValue when the key is missing)
ValueOf(v, key) ==
    IF v.t = "obj" /\ \E i \in 1..Len(v.v) : v.v[i][1] = Chars(key)
    THEN v.v[CHOOSE i \in 1..Len(v.v) : v.v[i][1] = Chars(key)][2]
    ELSE NoneValue

\* the text starts with the prefix
StartsWith(text, prefix) ==
    Len(text) >= Len(prefix) /\ SubSeq(text, 1, Len(prefix)) = prefix

\* an empty/error result for the company: has_api false, no endpoints, the
\* input name, and an error text with the given prefix
IsErrorResult(v, prefix) ==
    /\ ValueOf(v, "has_api") = Lit(Chars("false"))
    /\ ValueOf(v, "endpoints") = Arr(<<>>)
    /\ ValueOf(v, "company_name") = Text(CompanyName)
    /\ ValueOf(v, "error").t = "str"
    /\ StartsWith(ValueOf(v, "error").v, Chars(prefix))

\* the request failed at the transport level: it raised, or the answer has a
\* status outside 200..299
TransportFailure ==
    \/ q_http.raises # ""
    \/ ~(200 <= q_http.status_code /\ q_http.status_code < 300)

\* C16: a request that fails at the transport level (network error, timeout,
\* non-2xx status) is sent once, raises nothing and returns the empty/error
\* result: has_api false, endpoints empty, company_name the input name, an
\* error text
C16_TransportFailureErrorResult ==
    (q_pc \in {"returned", "raised"} /\ TransportFailure) =>
        /\ q_pc = "returned"
        /\ q_exc = ""
        /\ q_requests = 1
        /\ IsErrorResult(q_result, "")

\* what the completion text decodes to once the code block marks are taken off
Meant == JsonLoads(StripFences(Strip(q_http.content)))

\* C23: when the completion text, fences stripped, is a valid JSON object
\* text, _make_api_request returns the object it decodes to: the cleanup does
\* not change it, whatever its string values hold
C23_CleanupKeepsValidJson ==
    (/\ q_pc \in {"returned", "raised"}
     /\ q_content.bound
     /\ Meant.ok
     /\ Meant.val.t = "obj") =>
        /\ q_pc = "returned"
        /\ q_result = Meant.val

====
